---- MODULE Spec2Model ----
(***************************************************************************)
(* B3 trace-context propagation (src/b3/__init__.py).                      *)
(*                                                                         *)
(* Python values are represented as follows:                               *)
(*   str   a sequence of one-character strings ("0" is <<"0">>, the empty  *)
(*         string is <<>>), so that the characters of an identifier can be *)
(*         inspected;                                                      *)
(*   None  the value None below, which is no character sequence;           *)
(*   dict  a function whose domain is the set of keys; header names and    *)
(*         attribute names are TLA+ strings;                               *)
(*   g     flask.g, a function from the attribute names that are set;      *)
(*   an optional dict argument (headers=None) is a sequence of at most one *)
(*   dict: <<>> when nothing (None) is passed, <<d>> when d is passed.     *)
(***************************************************************************)
EXTENDS Integers, Sequences, FiniteSets, TLC

None == <<"None">>

\* ---------------------------------------------------------------- bounds
\* os.urandom can return MaxSeed + 1 different byte strings in the model.
MaxSeed == 1

\* ------------------------------------------------------- module constants
b3_trace_id == "X-B3-TraceId"
b3_parent_span_id == "X-B3-ParentSpanId"
b3_span_id == "X-B3-SpanId"
b3_sampled == "X-B3-Sampled"
b3_flags == "X-B3-Flags"
b3_headers == <<b3_trace_id, b3_parent_span_id, b3_span_id, b3_sampled, b3_flags>>

B3Names == {b3_headers[i] : i \in 1..Len(b3_headers)}

bit_length == 64

\* ------------------------------------------------------- Python helpers
\* bool(v) for a str or None
Truthy(v) == v # None /\ v # <<>>

\* the keys of a dict, the attributes of flask.g (the empty dict is the
\* empty function <<>>)
keys(d) == IF d = <<>> THEN {} ELSE DOMAIN d

\* k in d, of a dict and of flask.g
has(d, k) == k \in keys(d)

\* the optional dict arguments
NoDict == <<>>
Some(d) == <<d>>

\* bool(a) for an optional dict argument: neither None nor empty
TruthyDict(a) == a # NoDict /\ keys(a[1]) # {}

\* d.get(k) of a dict, of flask.g and of request.headers
get(d, k) == IF has(d, k) THEN d[k] ELSE None

\* setattr(obj, k, v), also d[k] = v
setattr(obj, k, v) == [x \in keys(obj) \cup {k} |-> IF x = k THEN v ELSE obj[x]]

\* g.pop(k, None): the object without the attribute (the popped value is not used)
pop(obj, k) == [x \in keys(obj) \ {k} |-> obj[x]]

\* d.update(e)
update(d, e) == [x \in keys(d) \cup keys(e) |-> IF has(e, x) THEN e[x] ELSE d[x]]

\* ------------------------------------------------ identifier generation
HexDigits == <<"0","1","2","3","4","5","6","7","8","9","a","b","c","d","e","f">>

\* binascii.hexlify(b).decode('ascii'): two lowercase hex digits per byte,
\* high nibble first
hexlify(b) ==
  [i \in 1..(2 * Len(b)) |->
     IF i % 2 = 1 THEN HexDigits[(b[(i + 1) \div 2] \div 16) + 1]
                  ELSE HexDigits[(b[i \div 2] % 16) + 1]]

\* os.urandom(n): n bytes nobody controls.  The outcomes the model draws
\* from are MaxSeed + 1 byte strings spread over the byte range.
urandom(n) == {[i \in 1..n |-> (seed * 151 + i * 37) % 256] : seed \in 0..MaxSeed}

\* faulty variant: 32 bits are drawn instead of 64
_generate_identifier_32bit ==
  {hexlify(identifier) : identifier \in urandom(bit_length \div 16)}

\* _generate_identifier(): the set of identifiers one call can return
_generate_identifier ==
  LET byte_length == bit_length \div 8
  IN  {hexlify(identifier) : identifier \in urandom(byte_length)}

\* ------------------------------------------------------------ the inputs
Barbapapa == <<"B","a","r","b","a","p","a","p","a">>
Barbazoo == <<"B","a","r","b","a","z","o","o">>
Barbalala == <<"B","a","r","b","a","l","a","l","a">>
\* a 16-hex-digit identifier as another B3 implementation sends it, and one
\* that os.urandom can lead to here as well
PeerId == <<"2","5","4","a","6","f","9","4","b","9","d","e","0","3","2","8">>

\* a mapping from its items; a key is listed once
dict(items) == [k \in {i[1] : i \in items} |-> (CHOOSE i \in items : i[1] = k)[2]]

\* the identifier headers of an inbound request ...
IdHeadersIn ==
  {dict({}),
   dict({<<b3_trace_id, Barbapapa>>}),
   dict({<<b3_span_id, Barbazoo>>}),
   dict({<<b3_parent_span_id, Barbazoo>>, <<b3_span_id, PeerId>>}),
   dict({<<b3_trace_id, Barbapapa>>, <<b3_parent_span_id, Barbazoo>>, <<b3_span_id, PeerId>>}),
   dict({<<b3_trace_id, <<>> >>, <<b3_span_id, <<>> >>})}

\* ... and its sampled and flags headers
FlagHeadersIn ==
  {dict({}),
   dict({<<b3_sampled, <<"0">> >>}),
   dict({<<b3_flags, <<"1">> >>}),
   dict({<<b3_sampled, <<"1">> >>, <<b3_flags, <<>> >>})}

\* the inbound header mappings: one of each
InboundHeaders == {update(i, f) : i \in IdHeadersIn, f \in FlagHeadersIn}

\* the mappings a context's second and later start_span is called with, and
\* a start_span called while a subspan is open
RestartHeadersIn ==
  {dict({<<b3_span_id, Barbazoo>>}),
   dict({<<b3_trace_id, Barbalala>>, <<b3_parent_span_id, Barbazoo>>, <<b3_span_id, PeerId>>,
         <<b3_sampled, <<"0">> >>, <<b3_flags, <<"1">> >>})}

\* ... and the mappings the span it replaces was resolved from
RestartedHeadersIn ==
  RestartHeadersIn \cup
    {dict({}),
     dict({<<b3_trace_id, Barbapapa>>}),
     dict({<<b3_trace_id, Barbapapa>>, <<b3_span_id, PeerId>>, <<b3_sampled, <<"1">> >>})}

\* the headers of the request the framework is handling (request.headers)
RequestHeadersIn ==
  {dict({<<b3_trace_id, Barbapapa>>, <<b3_span_id, PeerId>>, <<b3_sampled, <<"1">> >>})}

\* the headers a caller hands to _start_subspan, when it passes any (a
\* _start_subspan called while a subspan is open is called without)
Barbabeau == "Barbabeau"
SubspanHeadersIn ==
  {dict({}),
   dict({<<Barbabeau, Barbalala>>}),
   dict({<<Barbabeau, Barbalala>>, <<b3_trace_id, Barbazoo>>, <<b3_parent_span_id, Barbalala>>,
         <<b3_span_id, Barbazoo>>, <<b3_sampled, <<"1">> >>, <<b3_flags, <<"0">> >>})}

\* ------------------------------------------------------------- the state
VARIABLES
  ctx,      \* "none": no application context; "app": an application context
            \* (flask.g exists); "request": a request is being handled too
  request,  \* request.headers of the request being handled
  debug,    \* the module's debug switch
  g,        \* flask.g of the current application context
  started,  \* the last start_span that completed in this context, if any
            \* (called): the headers it resolved from, the debug switch it
            \* read, whether a subspan was open
  before,   \* what values() returned, and whether a subspan was open, when
            \* _start_subspan was called, kept while that call is the last
            \* one and over the _end_subspan that follows it directly (over
            \* the end_span or the end of the with statement that follows it
            \* directly if no subspan was open)
  scope,    \* "SubSpan" inside the block of a with SubSpan(...) statement,
            \* "out" elsewhere
  route,    \* "body" while the route that the span decorator wraps runs,
            \* "out" elsewhere
  last      \* the last call: its name, argument, return value, whether it
            \* raised, and (passed) what the object passed as its argument
            \* holds after the call

vars == <<ctx, request, debug, g, started, before, scope, route, last>>

\* "subspan" in g
SubspanOpen == has(g, "subspan")

\* faulty variant: the subspan is ignored, the span's values are returned
values_of_span ==
  IF ctx = "none"
    THEN [header \in B3Names |-> None]
    ELSE [header \in B3Names |-> get(g, header)]

\* values(): the five B3 values of the subspan if there is one, else of the span
values ==
  IF ctx = "none"
    THEN [header \in B3Names |-> None]
    ELSE LET span == IF has(g, "subspan") THEN get(g, "subspan") ELSE g
         IN  [header \in B3Names |-> get(span, header)]

NotStarted == [called |-> FALSE, headers |-> <<>>, debug |-> FALSE, open |-> FALSE]

NoSubspanYet == [called |-> FALSE, values |-> [header \in B3Names |-> None], open |-> FALSE]

\* a call that leaves the object passed to it as it is
Call(op, arg, ret, exc) == [op |-> op, arg |-> arg, ret |-> ret, exc |-> exc, passed |-> arg]

Init ==
  /\ ctx = "none"
  /\ request = <<>>
  /\ debug = FALSE
  /\ g = <<>>
  /\ started = NotStarted
  /\ before = NoSubspanYet
  /\ scope = "out"
  /\ route = "out"
  /\ last = Call("import", None, None, FALSE)

\* ------------------------------------------------------- the framework
\* with app.app_context(): a new application context with an empty g
AppContextPush ==
  /\ ctx = "none"
  /\ ctx' = "app"
  /\ g' = <<>>
  /\ started' = NotStarted
  /\ before' = NoSubspanYet
  /\ last' = Call("app_context", None, None, FALSE)
  /\ UNCHANGED <<request, debug>>

\* the framework starts handling a request: a request context, and with it
\* an application context with an empty g
RequestContextPush(headers) ==
  /\ ctx = "none"
  /\ ctx' = "request"
  /\ request' = headers
  /\ g' = <<>>
  /\ started' = NotStarted
  /\ before' = NoSubspanYet
  /\ last' = Call("request_context", Some(headers), None, FALSE)
  /\ UNCHANGED debug

\* the context ends and its g is gone
ContextPop ==
  /\ ctx # "none"
  /\ ctx' = "none"
  /\ request' = <<>>
  /\ g' = <<>>
  /\ started' = NotStarted
  /\ before' = NoSubspanYet
  /\ last' = Call("context_pop", None, None, FALSE)
  /\ UNCHANGED debug

\* b3.debug = value
SetDebug(value) ==
  /\ debug # value
  /\ debug' = value
  /\ last' = Call("debug", None, None, FALSE)
  /\ before' = NoSubspanYet
  /\ UNCHANGED <<ctx, request, g, started>>

\* ------------------------------------------------------------ the module

\* faulty variant: the RuntimeError of flask.g outside an application context
\* is not caught
ValuesCall_uncaught == [ret |-> values, exc |-> ctx = "none"]

\* a call of values(), line 26-39: what it returns and whether it raises; the
\* RuntimeError of line 29 is caught at line 32
ValuesCall == [ret |-> values, exc |-> FALSE]

CallValues ==
  /\ last' = Call("values", None, ValuesCall.ret, ValuesCall.exc)
  /\ before' = NoSubspanYet
  /\ UNCHANGED <<ctx, request, debug, g, started>>

\* start_span, line 50-55: the mapping the span is resolved from
SpanHeaders(request_headers) ==
  IF TruthyDict(request_headers) THEN request_headers[1]
  ELSE IF ctx = "request" THEN request
  ELSE <<>>

\* faulty variant: the trace id that arrived is not collected
SpanAttributes_trace_dropped(headers, generated) ==
  LET span_id == get(headers, b3_span_id)
      g1 == setattr(g, b3_trace_id, generated)
      g2 == setattr(g1, b3_parent_span_id, get(headers, b3_parent_span_id))
      g3 == setattr(g2, b3_span_id, IF Truthy(span_id) THEN span_id ELSE get(g2, b3_trace_id))
      g4 == setattr(g3, b3_sampled, get(headers, b3_sampled))
      g5 == setattr(g4, b3_flags, IF debug THEN <<"1">> ELSE get(headers, b3_flags))
  IN  g5

\* faulty variant: a header counts as missing only when it is None, so that an
\* empty trace id or span id is stored as it arrived
SpanAttributes_none_test(headers, generated) ==
  LET trace_id == get(headers, b3_trace_id)
      span_id == get(headers, b3_span_id)
      g1 == setattr(g, b3_trace_id, IF trace_id # None THEN trace_id ELSE generated)
      g2 == setattr(g1, b3_parent_span_id, get(headers, b3_parent_span_id))
      g3 == setattr(g2, b3_span_id, IF span_id # None THEN span_id ELSE get(g2, b3_trace_id))
      g4 == setattr(g3, b3_sampled, get(headers, b3_sampled))
      g5 == setattr(g4, b3_flags, IF debug THEN <<"1">> ELSE get(headers, b3_flags))
  IN  g5

\* faulty variant: a span id that did not arrive is generated, apart from the
\* trace id
SpanAttributes_own_span_id(headers, generated) ==
  LET trace_id == get(headers, b3_trace_id)
      span_id == get(headers, b3_span_id)
      g1 == setattr(g, b3_trace_id, IF Truthy(trace_id) THEN trace_id ELSE generated)
      g2 == setattr(g1, b3_parent_span_id, get(headers, b3_parent_span_id))
      g3 == setattr(g2, b3_span_id, IF Truthy(span_id) THEN span_id
                                    ELSE CHOOSE id \in _generate_identifier : TRUE)
      g4 == setattr(g3, b3_sampled, get(headers, b3_sampled))
      g5 == setattr(g4, b3_flags, IF debug THEN <<"1">> ELSE get(headers, b3_flags))
  IN  g5

\* faulty variant: a trace id and a span id that g holds already are kept
SpanAttributes_set_once(headers, generated) ==
  LET trace_id == get(headers, b3_trace_id)
      span_id == get(headers, b3_span_id)
      g1 == IF has(g, b3_trace_id) THEN g
            ELSE setattr(g, b3_trace_id, IF Truthy(trace_id) THEN trace_id ELSE generated)
      g2 == setattr(g1, b3_parent_span_id, get(headers, b3_parent_span_id))
      g3 == IF has(g, b3_span_id) THEN g2
            ELSE setattr(g2, b3_span_id, IF Truthy(span_id) THEN span_id ELSE get(g2, b3_trace_id))
      g4 == setattr(g3, b3_sampled, get(headers, b3_sampled))
      g5 == setattr(g4, b3_flags, IF debug THEN <<"1">> ELSE get(headers, b3_flags))
  IN  g5

\* faulty variant: the debug switch is not consulted
SpanAttributes_no_debug(headers, generated) ==
  LET trace_id == get(headers, b3_trace_id)
      span_id == get(headers, b3_span_id)
      g1 == setattr(g, b3_trace_id, IF Truthy(trace_id) THEN trace_id ELSE generated)
      g2 == setattr(g1, b3_parent_span_id, get(headers, b3_parent_span_id))
      g3 == setattr(g2, b3_span_id, IF Truthy(span_id) THEN span_id ELSE get(g2, b3_trace_id))
      g4 == setattr(g3, b3_sampled, get(headers, b3_sampled))
      g5 == setattr(g4, b3_flags, get(headers, b3_flags))
  IN  g5

\* start_span, line 57-82: the attributes set on g, given the identifier
\* _generate_identifier() returns if it is called
SpanAttributes(headers, generated) ==
  LET trace_id == get(headers, b3_trace_id)
      parent_span_id == get(headers, b3_parent_span_id)
      span_id == get(headers, b3_span_id)
      sampled == get(headers, b3_sampled)
      flags == get(headers, b3_flags)
      g1 == setattr(g, b3_trace_id, IF Truthy(trace_id) THEN trace_id ELSE generated)
      g2 == setattr(g1, b3_parent_span_id, parent_span_id)
      g3 == setattr(g2, b3_span_id, IF Truthy(span_id) THEN span_id ELSE get(g2, b3_trace_id))
      g4 == setattr(g3, b3_sampled, sampled)
      g5 == setattr(g4, b3_flags, IF debug THEN <<"1">> ELSE flags)
  IN  g5

start_span(request_headers) ==
  LET headers == SpanHeaders(request_headers)
  IN  IF ctx = "none"
        THEN \* setattr(g, ...) raises RuntimeError, which nothing catches
             /\ last' = Call("start_span", request_headers, None, TRUE)
             /\ before' = NoSubspanYet
             /\ UNCHANGED <<ctx, request, debug, g, started>>
        ELSE \* trace_id or _generate_identifier()
             \E generated \in IF Truthy(get(headers, b3_trace_id))
                                THEN {None} ELSE _generate_identifier :
               /\ g' = SpanAttributes(headers, generated)
               /\ started' = [called |-> TRUE, headers |-> headers, debug |-> debug,
                              open |-> SubspanOpen]
               /\ last' = Call("start_span", request_headers, None, FALSE)
               /\ before' = NoSubspanYet
               /\ UNCHANGED <<ctx, request, debug>>

\* faulty variant: with no subspan to close, the span is discarded
EndSubspanG_clears ==
  IF ctx = "none" THEN g
  ELSE IF has(g, "subspan") /\ keys(g["subspan"]) # {} THEN pop(g, "subspan")
  ELSE <<>>

\* faulty variant: the span is discarded together with the subspan
EndSubspanG_drops_span ==
  IF ctx = "none" THEN g
  ELSE IF has(g, "subspan") /\ keys(g["subspan"]) # {} THEN <<>>
  ELSE g

\* faulty variant: the values of the subspan that is closed are left on the span
EndSubspanG_merges ==
  IF ctx = "none" THEN g
  ELSE IF has(g, "subspan") /\ keys(g["subspan"]) # {}
         THEN update(pop(g, "subspan"), g["subspan"])
  ELSE g

\* faulty variant: the subspan is logged as closed and left in place
EndSubspanG_keeps == g

\* _end_subspan, line 217-224: g afterwards
EndSubspanG ==
  IF ctx = "none" THEN g
  ELSE IF has(g, "subspan") /\ keys(g["subspan"]) # {} THEN pop(g, "subspan")
  ELSE g

_end_subspan ==
  /\ g' = EndSubspanG
  /\ last' = Call("_end_subspan", None, None, FALSE)
  /\ before' = IF last.op = "_start_subspan" THEN before ELSE NoSubspanYet
  /\ UNCHANGED <<ctx, request, debug, started>>

ResponsesIn == {None, <<"O","K">>}

\* faulty variant: the span is discarded from g when it ends
end_span_discards(response) ==
  /\ g' = IF ctx = "none" THEN g ELSE <<>>
  /\ last' = Call("end_span", response, response, FALSE)
  /\ before' = IF last.op = "_start_subspan" /\ ~before.open THEN before ELSE NoSubspanYet
  /\ UNCHANGED <<ctx, request, debug, started>>

end_span(response) ==
  /\ g' = EndSubspanG
  /\ last' = Call("end_span", response, response, FALSE)
  /\ before' = IF last.op = "_start_subspan" /\ ~before.open THEN before ELSE NoSubspanYet
  /\ UNCHANGED <<ctx, request, debug, started>>

\* faulty variant: a subspan that inherits no trace id starts a trace of its own
Subspan_own_trace(b3, generated) ==
  [h \in B3Names |->
     CASE h = b3_trace_id -> IF Truthy(b3[b3_trace_id]) THEN b3[b3_trace_id] ELSE generated
       [] h = b3_span_id -> generated
       [] h = b3_parent_span_id -> b3[b3_span_id]
       [] h = b3_sampled -> b3[b3_sampled]
       [] h = b3_flags -> b3[b3_flags]]

\* faulty variant: the parent of the current span is handed on as the parent
Subspan_parent_kept(b3, generated) ==
  [h \in B3Names |->
     CASE h = b3_trace_id -> b3[b3_trace_id]
       [] h = b3_span_id -> generated
       [] h = b3_parent_span_id -> b3[b3_parent_span_id]
       [] h = b3_sampled -> b3[b3_sampled]
       [] h = b3_flags -> b3[b3_flags]]

\* _start_subspan, line 174-188: the subspan, given the identifier generated
Subspan(b3, generated) ==
  [h \in B3Names |->
     CASE h = b3_trace_id -> b3[b3_trace_id]
       [] h = b3_span_id -> generated
       [] h = b3_parent_span_id -> b3[b3_span_id]
       [] h = b3_sampled -> b3[b3_sampled]
       [] h = b3_flags -> b3[b3_flags]]

\* faulty variant: a sampled value that is not set is sent as "0"
SubspanHeaders_sampled_default(headers, subspan) ==
  LET r0 == IF TruthyDict(headers) THEN headers[1] ELSE <<>>
      r1 == update(r0, [h \in {b3_trace_id, b3_span_id, b3_parent_span_id} |-> subspan[h]])
      r2 == setattr(r1, b3_sampled,
                    IF Truthy(subspan[b3_sampled]) THEN subspan[b3_sampled] ELSE <<"0">>)
      r3 == IF Truthy(subspan[b3_flags]) THEN setattr(r2, b3_flags, subspan[b3_flags]) ELSE r2
  IN  r3

\* faulty variant: sampled is sent only when it is "1"
SubspanHeaders_sampled_one(headers, subspan) ==
  LET r0 == IF TruthyDict(headers) THEN headers[1] ELSE <<>>
      r1 == update(r0, [h \in {b3_trace_id, b3_span_id, b3_parent_span_id} |-> subspan[h]])
      r2 == IF subspan[b3_sampled] = <<"1">> THEN setattr(r1, b3_sampled, subspan[b3_sampled]) ELSE r1
      r3 == IF Truthy(subspan[b3_flags]) THEN setattr(r2, b3_flags, subspan[b3_flags]) ELSE r2
  IN  r3

\* faulty variant: flags is sent whenever it is not None, also when it is empty
SubspanHeaders_flags_empty(headers, subspan) ==
  LET r0 == IF TruthyDict(headers) THEN headers[1] ELSE <<>>
      r1 == update(r0, [h \in {b3_trace_id, b3_span_id, b3_parent_span_id} |-> subspan[h]])
      r2 == IF Truthy(subspan[b3_sampled]) THEN setattr(r1, b3_sampled, subspan[b3_sampled]) ELSE r1
      r3 == IF subspan[b3_flags] # None THEN setattr(r2, b3_flags, subspan[b3_flags]) ELSE r2
  IN  r3

\* faulty variant: the B3 headers are returned alone, the caller's headers dropped
SubspanHeaders_b3_only(headers, subspan) ==
  LET r1 == [h \in {b3_trace_id, b3_span_id, b3_parent_span_id} |-> subspan[h]]
      r2 == IF Truthy(subspan[b3_sampled]) THEN setattr(r1, b3_sampled, subspan[b3_sampled]) ELSE r1
      r3 == IF Truthy(subspan[b3_flags]) THEN setattr(r2, b3_flags, subspan[b3_flags]) ELSE r2
  IN  r3

\* _start_subspan, line 192-203: the headers for the downstream request
SubspanHeaders(headers, subspan) ==
  LET r0 == IF TruthyDict(headers) THEN headers[1] ELSE <<>>
      r1 == update(r0, [h \in {b3_trace_id, b3_span_id, b3_parent_span_id} |-> subspan[h]])
      r2 == IF Truthy(subspan[b3_sampled]) THEN setattr(r1, b3_sampled, subspan[b3_sampled]) ELSE r1
      r3 == IF Truthy(subspan[b3_flags]) THEN setattr(r2, b3_flags, subspan[b3_flags]) ELSE r2
  IN  r3

\* faulty variant: the B3 headers are set on the mapping that was passed
\* (result = headers or {}), as add_subspan_headers of flaskb3 does
SubspanHeap_in_place(headers, subspan) ==
  LET heap0 == [headers |-> IF headers = NoDict THEN <<>> ELSE headers[1], result |-> <<>>]
      result == IF TruthyDict(headers) THEN "headers" ELSE "result"
      heap1 == [heap0 EXCEPT ![result] =
                  update(@, [h \in {b3_trace_id, b3_span_id, b3_parent_span_id} |-> subspan[h]])]
      heap2 == IF Truthy(subspan[b3_sampled])
                 THEN [heap1 EXCEPT ![result] = setattr(@, b3_sampled, subspan[b3_sampled])]
                 ELSE heap1
      heap3 == IF Truthy(subspan[b3_flags])
                 THEN [heap2 EXCEPT ![result] = setattr(@, b3_flags, subspan[b3_flags])]
                 ELSE heap2
  IN  heap3

\* _start_subspan, line 192-203: the two mappings at hand, the one the caller
\* passed (headers; empty when None was passed) and the one dict() makes
\* (result), after the updates, which are made through the name result
SubspanHeap(headers, subspan) ==
  LET heap0 == [headers |-> IF headers = NoDict THEN <<>> ELSE headers[1],
                result |-> IF TruthyDict(headers) THEN headers[1] ELSE <<>>]
      result == "result"
      heap1 == [heap0 EXCEPT ![result] =
                  update(@, [h \in {b3_trace_id, b3_span_id, b3_parent_span_id} |-> subspan[h]])]
      heap2 == IF Truthy(subspan[b3_sampled])
                 THEN [heap1 EXCEPT ![result] = setattr(@, b3_sampled, subspan[b3_sampled])]
                 ELSE heap1
      heap3 == IF Truthy(subspan[b3_flags])
                 THEN [heap2 EXCEPT ![result] = setattr(@, b3_flags, subspan[b3_flags])]
                 ELSE heap2
  IN  heap3

_start_subspan(headers) ==
  LET b3 == values
  IN  IF ctx = "none"
        THEN \* g.subspan = ... raises RuntimeError, which nothing catches
             /\ last' = Call("_start_subspan", headers, None, TRUE)
             /\ before' = NoSubspanYet
             /\ UNCHANGED <<ctx, request, debug, g, started>>
        ELSE \E generated \in _generate_identifier :
               /\ g' = setattr(g, "subspan", Subspan(b3, generated))
               /\ before' = [called |-> TRUE, values |-> b3, open |-> SubspanOpen]
               /\ last' = [Call("_start_subspan", headers,
                                SubspanHeaders(headers, Subspan(b3, generated)), FALSE)
                             EXCEPT !.passed = IF headers = NoDict THEN NoDict
                                               ELSE Some(SubspanHeap(headers, Subspan(b3, generated)).headers)]
               /\ UNCHANGED <<ctx, request, debug, started>>

\* what the block of a with SubSpan(...) statement ends with: nothing, or the
\* exception the downstream call raised
ConnectionError == <<"C","o","n","n","e","c","t","i","o","n","E","r","r","o","r">>
ExceptionsIn == {None, ConnectionError}

\* SubSpan.__enter__, line 146-147: _start_subspan(self.headers); the block is
\* entered when it returns
SubSpan__enter__(headers) ==
  /\ scope = "out"
  /\ _start_subspan(headers)
  /\ scope' = IF ctx = "none" THEN "out" ELSE "SubSpan"

\* faulty variant: the subspan is closed only when the block ends normally
SubSpan__exit__G_normal_only(exc_type) == IF exc_type = None THEN EndSubspanG ELSE g

\* SubSpan.__exit__, line 149-150: g afterwards
SubSpan__exit__G(exc_type) == EndSubspanG

\* SubSpan.__exit__ returns nothing, and with that None
SubSpan__exit__Return == None

\* the block ends, with an exception (exc_type) or without, and __exit__ runs;
\* the with statement raises the block's exception unless __exit__ returns a
\* true value
SubSpan__exit__(exc_type) ==
  /\ scope = "SubSpan"
  /\ g' = SubSpan__exit__G(exc_type)
  /\ scope' = "out"
  /\ last' = Call("SubSpan", exc_type, SubSpan__exit__Return,
                  exc_type # None /\ ~Truthy(SubSpan__exit__Return))
  /\ before' = IF last.op = "_start_subspan" /\ ~before.open THEN before ELSE NoSubspanYet
  /\ UNCHANGED <<ctx, request, debug, started>>

\* the headers a with SubSpan(headers) statement is given, when it is given any
ScopeHeadersIn == {dict({<<Barbabeau, Barbalala>>})}

\* ---------------------------------------------------- the logging consumer
\* (src/sleuth/__init__.py, src/logging_standard/__init__.py)

\* the name of the application: current_app.name in sleuth, _app_name in
\* logging_standard, which is None until init(app) is called
AppName == <<"t","e","s","t">>
AppNamesIn == {None, AppName}

\* faulty variant: exported is worked out from sampled and flags, as the line
\* that is commented out in the source does
_tracing_information_exported(app_name) ==
  LET b3values == values
  IN  IF Truthy(b3values[b3_trace_id])
        THEN <<IF Truthy(app_name) THEN app_name ELSE <<" ","-"," ">>,
               b3values[b3_trace_id],
               b3values[b3_span_id],
               IF b3values[b3_sampled] = <<"1">> \/ b3values[b3_flags] = <<"1">>
                 THEN <<"t","r","u","e">> ELSE <<"f","a","l","s","e">> >>
        ELSE None

\* _tracing_information(): the list for the log record, None when no trace id
\* has been collected
_tracing_information(app_name) ==
  LET b3values == values
  IN  IF Truthy(b3values[b3_trace_id])
        THEN <<IF Truthy(app_name) THEN app_name ELSE <<" ","-"," ">>,
               b3values[b3_trace_id],
               b3values[b3_span_id],
               <<"f","a","l","s","e">> >>
        ELSE None

\* a log record is made: _update_record calls _tracing_information()
_update_record(app_name) ==
  /\ last' = Call("_tracing_information", app_name, _tracing_information(app_name), FALSE)
  /\ before' = NoSubspanYet
  /\ UNCHANGED <<ctx, request, debug, g, started>>

\* ------------------------------------------------ the decorator of routes
\* span, line 116-117: the decorated route is called, and start_span() runs;
\* the route runs when it returns
route_decorator__start ==
  /\ route = "out"
  /\ start_span(NoDict)
  /\ route' = IF ctx = "none" THEN "out" ELSE "body"

\* what the route returns
RouteResponse == <<"O","K">>

\* faulty variant: end_span() follows the route without try and finally, and
\* is not reached when the route raises
route_decoratorG_no_finally(exc_type) == IF exc_type = None THEN EndSubspanG ELSE g

\* span, line 118-121: g after the finally clause, end_span()
route_decoratorG(exc_type) == EndSubspanG

\* the route ends, with an exception (exc_type) or with its response, the
\* finally clause runs and the decorated call raises or returns the same
route_decorator__finally(exc_type) ==
  /\ route = "body"
  /\ g' = route_decoratorG(exc_type)
  /\ route' = "out"
  /\ last' = Call("span", exc_type, IF exc_type = None THEN RouteResponse ELSE None,
                  exc_type # None)
  /\ before' = IF last.op = "_start_subspan" /\ ~before.open THEN before ELSE NoSubspanYet
  /\ UNCHANGED <<ctx, request, debug, started>>

\* Outside a with SubSpan(...) statement and a decorated route the functions
\* of the module are called in any order and contexts begin and end.  The
\* block of the statement is what app.py and the docstring of SubSpan put
\* there: the downstream call, which ends normally or with an exception, and
\* the logging around it, which calls values() and makes log records; on top
\* of that a subspan started or ended by hand.  A decorated route does the
\* same and makes its downstream calls in with SubSpan(...) statements or by
\* hand; a statement inside it is left before the route is.
\* A start_span that replaces a span is offered for the spans resolved from
\* RestartedHeadersIn.
\* The debug setting is changed between downstream calls, while no subspan
\* is open, and a log record without an application name is made there too.
Next ==
  \/ AppContextPush /\ UNCHANGED <<scope, route>>
  \/ \E headers \in RequestHeadersIn : RequestContextPush(headers) /\ UNCHANGED <<scope, route>>
  \/ scope = "out" /\ route = "out" /\ ContextPop /\ UNCHANGED <<scope, route>>
  \/ \E value \in BOOLEAN :
       scope = "out" /\ route = "out" /\ ~SubspanOpen /\ SetDebug(value) /\ UNCHANGED <<scope, route>>
  \/ /\ scope = "out" /\ route = "out"
     /\ started.called => started.headers \in RestartedHeadersIn
     /\ start_span(NoDict) /\ UNCHANGED <<scope, route>>
  \/ \E request_headers \in IF started.called \/ SubspanOpen THEN RestartHeadersIn
                                                               ELSE InboundHeaders :
       /\ scope = "out" /\ route = "out"
       /\ started.called => started.headers \in RestartedHeadersIn
       /\ start_span(Some(request_headers)) /\ UNCHANGED <<scope, route>>
  \/ \E response \in ResponsesIn :
       scope = "out" /\ route = "out" /\ end_span(response) /\ UNCHANGED <<scope, route>>
  \/ _start_subspan(NoDict) /\ UNCHANGED <<scope, route>>
  \/ \E headers \in IF SubspanOpen \/ scope # "out" THEN {} ELSE SubspanHeadersIn :
       _start_subspan(Some(headers)) /\ UNCHANGED <<scope, route>>
  \/ _end_subspan /\ UNCHANGED <<scope, route>>
  \/ CallValues /\ UNCHANGED <<scope, route>>
  \/ \E app_name \in IF SubspanOpen \/ scope # "out" \/ route # "out" THEN {AppName} ELSE AppNamesIn :
       _update_record(app_name) /\ UNCHANGED <<scope, route>>
  \/ SubSpan__enter__(NoDict) /\ UNCHANGED route
  \/ \E headers \in IF SubspanOpen THEN {} ELSE ScopeHeadersIn :
       SubSpan__enter__(Some(headers)) /\ UNCHANGED route
  \/ \E exc_type \in ExceptionsIn : SubSpan__exit__(exc_type) /\ UNCHANGED route
  \/ /\ scope = "out"
     /\ started.called => started.headers \in RestartedHeadersIn
     /\ route_decorator__start /\ UNCHANGED scope
  \/ \E exc_type \in ExceptionsIn :
       scope = "out" /\ route_decorator__finally(exc_type) /\ UNCHANGED scope

Spec == Init /\ [][Next]_vars

\* ================================================================ claims
\* the last call was op and returned
Returned(op) == last.op = op /\ ~last.exc

\* a span has been started in this context, at a point where no subspan was
\* open (the request's start_span), and inbound is what it resolved from
inbound == started.headers
SpanStarted == started.called /\ ~started.open

\* [0-9a-f]{16}
IsHex16(v) == Len(v) = 16 /\ \A i \in 1..Len(v) : v[i] \in {HexDigits[j] : j \in 1..16}

\* the B3 headers the subspan in g holds
subspan == g["subspan"]

\* ---- C1
\* C1: when the inbound headers of the request's start_span contain a trace
\* id T, values()['X-B3-TraceId'] is T after start_span, and the headers every
\* later _start_subspan returns carry X-B3-TraceId = T.
C1_TraceIdMaintained ==
  LET T == get(inbound, b3_trace_id)
  IN  (SpanStarted /\ Truthy(T)) =>
        /\ Returned("start_span") => values[b3_trace_id] = T
        /\ Returned("_start_subspan") =>
             has(last.ret, b3_trace_id) /\ last.ret[b3_trace_id] = T

C1_Witness ==
  /\ SpanStarted /\ get(inbound, b3_trace_id) = Barbapapa
  /\ Returned("_start_subspan") /\ last.ret[b3_trace_id] = Barbapapa

\* ---- C2
\* C2 as stated: when the inbound headers lack a trace id, whatever else they
\* carry, after start_span the trace id is 16 hex characters, the span id is
\* not empty and the parent span id is absent.
C2_AsStated ==
  (SpanStarted /\ Returned("start_span") /\ ~Truthy(get(inbound, b3_trace_id))) =>
    /\ IsHex16(values[b3_trace_id])
    /\ Truthy(values[b3_span_id])
    /\ values[b3_parent_span_id] = None

\* C2 amended: when the inbound headers lack a trace id, after start_span the
\* trace id is a generated identifier of 16 hex characters and the span id is
\* not empty; the parent span id is the inbound one, absent exactly when the
\* inbound headers carry none.
C2_RootSpan ==
  (SpanStarted /\ Returned("start_span") /\ ~Truthy(get(inbound, b3_trace_id))) =>
    /\ IsHex16(values[b3_trace_id])
    /\ values[b3_trace_id] \in _generate_identifier
    /\ Truthy(values[b3_span_id])
    /\ values[b3_parent_span_id] = get(inbound, b3_parent_span_id)

C2_Witness ==
  /\ SpanStarted /\ Returned("start_span")
  /\ ~has(inbound, b3_trace_id) /\ has(inbound, b3_parent_span_id)
  /\ IsHex16(values[b3_trace_id]) /\ values[b3_parent_span_id] = Barbazoo

C5_AsStated ==
  (Returned("_end_subspan") /\ before.called) => values = before.values

\* C5 amended: the same for a _start_subspan called with no subspan open; a
\* _start_subspan called while a subspan is open replaces that subspan, and
\* _end_subspan then restores the span's values, not the replaced subspan's.
C5_RoundTrip ==
  (Returned("_end_subspan") /\ before.called /\ ~before.open) => values = before.values

C5_Witness ==
  /\ Returned("_end_subspan") /\ before.called /\ ~before.open
  /\ started.called /\ values = before.values /\ values[b3_span_id] = PeerId

\* ---- C6
\* C6 as stated: when the inbound headers carry no sampled header, values()
\* has no sampled value and the headers _start_subspan returns have no
\* X-B3-Sampled key, with or without headers of the caller.
C6_AsStated ==
  (SpanStarted /\ ~has(inbound, b3_sampled)) =>
    /\ Returned("start_span") => values[b3_sampled] = None
    /\ Returned("_start_subspan") => ~has(last.ret, b3_sampled)

\* C6 amended: ... values() has no sampled value and _start_subspan adds no
\* X-B3-Sampled key: the headers it returns have one only when the caller's
\* headers have one, the caller's value unchanged.
C6_SampledNotSet ==
  (SpanStarted /\ ~has(inbound, b3_sampled)) =>
    /\ Returned("start_span") => values[b3_sampled] = None
    /\ Returned("_start_subspan") =>
         /\ values[b3_sampled] = None
         /\ has(last.ret, b3_sampled) <=> (last.arg # NoDict /\ has(last.arg[1], b3_sampled))
         /\ has(last.ret, b3_sampled) => last.ret[b3_sampled] = last.arg[1][b3_sampled]

C6_Witness ==
  /\ SpanStarted /\ ~has(inbound, b3_sampled) /\ Returned("_start_subspan")
  /\ last.arg # NoDict /\ has(last.arg[1], Barbabeau) /\ ~has(last.ret, b3_sampled)

\* ---- C7
\* C7: when the inbound headers carry a non-empty sampled value v ("0"
\* included), values()['X-B3-Sampled'] is v after start_span and the headers
\* every later _start_subspan returns carry X-B3-Sampled = v.
C7_SampledMaintained ==
  LET v == get(inbound, b3_sampled)
  IN  (SpanStarted /\ Truthy(v)) =>
        /\ Returned("start_span") => values[b3_sampled] = v
        /\ Returned("_start_subspan") =>
             has(last.ret, b3_sampled) /\ last.ret[b3_sampled] = v

C7_Witness ==
  /\ SpanStarted /\ get(inbound, b3_sampled) = <<"0">>
  /\ Returned("_start_subspan") /\ last.ret[b3_sampled] = <<"0">>

\* ---- C8
\* C8: with the debug switch on (when start_span ran and since),
\* values()['X-B3-Flags'] is "1" after start_span whatever flags arrived, and
\* the headers every later _start_subspan returns carry X-B3-Flags = "1".
C8_DebugSetsFlags ==
  (SpanStarted /\ started.debug /\ debug) =>
    /\ Returned("start_span") => values[b3_flags] = <<"1">>
    /\ Returned("_start_subspan") =>
         has(last.ret, b3_flags) /\ last.ret[b3_flags] = <<"1">>

C8_Witness ==
  /\ SpanStarted /\ started.debug /\ debug /\ get(inbound, b3_flags) # <<"1">>
  /\ Returned("_start_subspan") /\ last.ret[b3_flags] = <<"1">>

\* ---- C9
\* C9: with the debug switch off, values()['X-B3-Flags'] after start_span is
\* the inbound flags value f (None when there is none); the headers a later
\* _start_subspan returns carry X-B3-Flags = f when f is not empty, and
\* otherwise no X-B3-Flags but the one the caller's headers had.
C9_FlagsPassThrough ==
  LET f == get(inbound, b3_flags)
  IN  (SpanStarted /\ ~started.debug /\ ~debug) =>
        /\ Returned("start_span") => values[b3_flags] = f
        /\ (Returned("_start_subspan") /\ Truthy(f)) =>
             has(last.ret, b3_flags) /\ last.ret[b3_flags] = f
        /\ (Returned("_start_subspan") /\ ~Truthy(f)) =>
             /\ has(last.ret, b3_flags) <=> (last.arg # NoDict /\ has(last.arg[1], b3_flags))
             /\ has(last.ret, b3_flags) => last.ret[b3_flags] = last.arg[1][b3_flags]

C9_Witness ==
  /\ SpanStarted /\ ~started.debug /\ ~debug /\ get(inbound, b3_flags) = <<>>
  /\ Returned("_start_subspan") /\ ~has(last.ret, b3_flags)

\* ---- C10
\* C10: the headers _start_subspan(h) returns contain every key of h; a key
\* of h that is no B3 header keeps its value; X-B3-TraceId, X-B3-SpanId and
\* X-B3-ParentSpanId are those of the subspan, whatever h held for them.
C10_HeadersUpdated ==
  Returned("_start_subspan") =>
    /\ \A k \in {b3_trace_id, b3_span_id, b3_parent_span_id} :
         has(last.ret, k) /\ last.ret[k] = subspan[k]
    /\ last.arg # NoDict =>
         /\ keys(last.arg[1]) \subseteq keys(last.ret)
         /\ \A k \in keys(last.arg[1]) \ B3Names : last.ret[k] = last.arg[1][k]

C10_Witness ==
  /\ Returned("_start_subspan") /\ last.arg # NoDict
  /\ get(last.arg[1], Barbabeau) = Barbalala /\ get(last.arg[1], b3_trace_id) = Barbazoo
  /\ last.ret[Barbabeau] = Barbalala /\ last.ret[b3_trace_id] = Barbapapa

AllAbsent(b3) == \A header \in B3Names : b3[header] = None

\* C12 as stated: values() does not raise and returns all five keys; called
\* before any start_span, or with no context at all, it returns five absent
\* values.  _end_subspan called with no context does not raise.
C12_AsStated ==
  /\ last.op = "values" =>
       /\ ~last.exc
       /\ DOMAIN last.ret = B3Names
       /\ (ctx = "none" \/ ~started.called) => AllAbsent(last.ret)
  /\ (last.op = "_end_subspan" /\ ctx = "none") => ~last.exc

\* C12 amended: ... called with no context at all, or before any start_span
\* and with no subspan open, it returns five absent values (a subspan started
\* before any start_span has a span id, which values() returns).
C12_ValuesNeverRaises ==
  /\ last.op = "values" =>
       /\ ~last.exc
       /\ DOMAIN last.ret = B3Names
       /\ (ctx = "none" \/ (~started.called /\ ~SubspanOpen)) => AllAbsent(last.ret)
       /\ (~started.called /\ SubspanOpen) =>
            /\ IsHex16(last.ret[b3_span_id])
            /\ \A header \in B3Names \ {b3_span_id, b3_parent_span_id} : last.ret[header] = None
  /\ (last.op = "_end_subspan" /\ ctx = "none") => ~last.exc

C12_Witness ==
  /\ last.op = "values" /\ ~last.exc /\ ctx = "none" /\ AllAbsent(last.ret)

C14_EndSubspanNoOp ==
  [][last'.op = "_end_subspan" =>
       /\ ~last'.exc
       /\ ~SubspanOpen'
       /\ ~SubspanOpen => (g' = g /\ values' = values)]_vars

C14_Witness ==
  /\ Returned("_end_subspan") /\ SpanStarted /\ ~before.called /\ ~SubspanOpen
  /\ get(g, b3_trace_id) = Barbapapa /\ values[b3_trace_id] = Barbapapa

\* ---- C15
\* C15: after end_span no subspan is open, whatever was called before, and
\* end_span returns the response it was passed.
C15_EndSpanClosesSubspan ==
  last.op = "end_span" =>
    /\ ~last.exc
    /\ ~SubspanOpen
    /\ last.ret = last.arg

C15_Witness ==
  /\ Returned("end_span") /\ before.called /\ started.called /\ ~SubspanOpen
  /\ last.ret = <<"O","K">> /\ get(g, b3_trace_id) = Barbapapa

\* ---- C16
\* C16 as stated: once start_span has set the trace id, no later call in the
\* same context changes the trace id stored for the span.
C16_AsStated ==
  [][(started.called /\ started'.called) =>
       get(g', b3_trace_id) = get(g, b3_trace_id)]_vars

\* C16 amended: ... no later call other than start_span changes it:
\* _start_subspan, _end_subspan, end_span, values() and the debug switch leave
\* it alone; start_span called again resolves the trace id anew.
C16_TraceIdKept ==
  [][(started.called /\ started'.called /\ last'.op # "start_span") =>
       get(g', b3_trace_id) = get(g, b3_trace_id)]_vars

C16_Witness ==
  /\ SpanStarted /\ get(inbound, b3_trace_id) = Barbapapa /\ debug # started.debug
  /\ Returned("end_span") /\ before.called /\ get(g, b3_trace_id) = Barbapapa

\* ---- C17
\* C17: when a with SubSpan(...) statement is left, after a block that ended
\* normally or with an exception, no subspan is open and values() returns the
\* span's five values; the statement raises exactly when the block did.
C17_SubSpanScopeCloses ==
  last.op = "SubSpan" =>
    /\ scope = "out"
    /\ ~SubspanOpen
    /\ \A header \in B3Names : values[header] = get(g, header)
    /\ last.exc <=> (last.arg # None)

C17_Witness ==
  /\ last.op = "SubSpan" /\ last.arg = ConnectionError /\ last.exc
  /\ before.called /\ ~before.open /\ SpanStarted /\ ~SubspanOpen
  /\ values[b3_span_id] = PeerId /\ values = before.values

\* ---- C18
\* C18 as stated: right after start_span, called in whatever state of a
\* context, values() returns the five fields resolved from the headers of this
\* call: the trace id they carry or else a generated one, their parent span
\* id, the span id they carry or else the trace id, their sampled value, and
\* for flags "1" with the debug switch on and else their flags value.
C18_AsStated ==
  Returned("start_span") =>
    /\ Truthy(get(inbound, b3_trace_id)) => values[b3_trace_id] = get(inbound, b3_trace_id)
    /\ ~Truthy(get(inbound, b3_trace_id)) => values[b3_trace_id] \in _generate_identifier
    /\ values[b3_parent_span_id] = get(inbound, b3_parent_span_id)
    /\ values[b3_span_id] = IF Truthy(get(inbound, b3_span_id))
                              THEN get(inbound, b3_span_id) ELSE values[b3_trace_id]
    /\ values[b3_sampled] = get(inbound, b3_sampled)
    /\ values[b3_flags] = IF debug THEN <<"1">> ELSE get(inbound, b3_flags)

\* C18 amended: right after start_span, called in whatever state of a
\* context, the five fields stored for the span are those resolved from the
\* headers of this call, whatever was stored before, and values() returns them
\* if no subspan is open; a subspan that was open stays open, and values()
\* goes on returning the values of that subspan.
C18_SpanReplaced ==
  Returned("start_span") =>
    /\ Truthy(get(inbound, b3_trace_id)) => get(g, b3_trace_id) = get(inbound, b3_trace_id)
    /\ ~Truthy(get(inbound, b3_trace_id)) => get(g, b3_trace_id) \in _generate_identifier
    /\ get(g, b3_parent_span_id) = get(inbound, b3_parent_span_id)
    /\ get(g, b3_span_id) = IF Truthy(get(inbound, b3_span_id))
                              THEN get(inbound, b3_span_id) ELSE get(g, b3_trace_id)
    /\ get(g, b3_sampled) = get(inbound, b3_sampled)
    /\ get(g, b3_flags) = IF debug THEN <<"1">> ELSE get(inbound, b3_flags)
    /\ SubspanOpen = started.open
    /\ ~SubspanOpen => \A header \in B3Names : values[header] = get(g, header)
    /\ SubspanOpen => \A header \in B3Names : values[header] = subspan[header]

C18_Witness ==
  /\ Returned("start_span") /\ started.open /\ SubspanOpen
  /\ get(inbound, b3_trace_id) = Barbalala /\ get(g, b3_trace_id) = Barbalala
  /\ values[b3_trace_id] = Barbapapa /\ subspan[b3_parent_span_id] = PeerId

\* ---- C19
\* C19: a _start_subspan called while a subspan is open replaces that subspan:
\* g holds one subspan, the new one, with the trace id of the one replaced and
\* with that one's span id as parent span id (what values() returned just
\* before); one _end_subspan afterwards leaves no subspan open.
C19_OverlapReplaces ==
  /\ (Returned("_start_subspan") /\ before.open) =>
       /\ SubspanOpen
       /\ subspan[b3_trace_id] = before.values[b3_trace_id]
       /\ subspan[b3_parent_span_id] = before.values[b3_span_id]
       /\ IsHex16(before.values[b3_span_id])
       /\ \A header \in B3Names : values[header] = subspan[header]
  /\ (Returned("_end_subspan") /\ before.called /\ before.open) => ~SubspanOpen

C19_Witness ==
  /\ Returned("_end_subspan") /\ before.called /\ before.open /\ ~SubspanOpen
  /\ SpanStarted /\ get(g, b3_span_id) = Barbazoo
  /\ before.values[b3_parent_span_id] = Barbazoo /\ before.values[b3_span_id] # Barbazoo

\* ---- C20
\* C20: when a mapping is passed to start_span, an empty one included, the
\* span is resolved from that mapping; request.headers is used only when
\* none is passed.
C20_PassedHeadersUsed ==
  Returned("start_span") =>
    /\ last.arg # NoDict => inbound = last.arg[1]
    /\ (last.arg = NoDict /\ ctx = "request") => inbound = request

\* ---- C21
\* C21: from the first start_span of a context on, the trace id and the span
\* id stored in g are never empty (neither None nor ""), whatever headers
\* arrived, a missing or an empty trace id or span id header included.
C21_IdsNeverEmpty ==
  started.called => (Truthy(get(g, b3_trace_id)) /\ Truthy(get(g, b3_span_id)))

C21_Witness ==
  /\ started.called /\ has(inbound, b3_trace_id) /\ inbound[b3_trace_id] = <<>>
  /\ has(inbound, b3_span_id) /\ inbound[b3_span_id] = <<>>
  /\ Returned("end_span")
  /\ IsHex16(get(g, b3_trace_id)) /\ IsHex16(get(g, b3_span_id))

\* ---- C22
\* C22: right after start_span the stored span id is, when the headers carry
\* no span id, the stored trace id (the one of the headers if they carry one,
\* else the one generated), and when they carry a span id it is that span id,
\* with a trace id of the headers as with a generated one.
C22_SpanIdDefaultsToTraceId ==
  LET T == get(inbound, b3_trace_id)
      S == get(inbound, b3_span_id)
  IN  Returned("start_span") =>
        /\ Truthy(T) => get(g, b3_trace_id) = T
        /\ ~Truthy(T) => get(g, b3_trace_id) \in _generate_identifier
        /\ ~Truthy(S) => get(g, b3_span_id) = get(g, b3_trace_id)
        /\ Truthy(S) => get(g, b3_span_id) = S

C22_Witness ==
  /\ Returned("start_span") /\ SpanStarted
  /\ get(inbound, b3_trace_id) = Barbapapa /\ ~has(inbound, b3_span_id)
  /\ get(g, b3_span_id) = Barbapapa

\* ---- C23
\* C23 as stated: after end_span, values() in that context no longer returns
\* the values of the span that ended: it returns five absent values.
C23_AsStated ==
  (Returned("end_span") /\ started.called) => AllAbsent(values)

\* C23 amended: end_span leaves the span in g: after end_span no subspan is
\* open and values() returns the five values that start_span stored, until the
\* context ends; with no context values() returns five absent values.
C23_SpanOutlivesEndSpan ==
  /\ (Returned("end_span") /\ started.called) =>
       /\ ~SubspanOpen
       /\ \A header \in B3Names : values[header] = get(g, header)
       /\ Truthy(values[b3_trace_id]) /\ Truthy(values[b3_span_id])
       /\ Truthy(get(inbound, b3_trace_id)) => values[b3_trace_id] = get(inbound, b3_trace_id)
       /\ values[b3_parent_span_id] = get(inbound, b3_parent_span_id)
       /\ values[b3_sampled] = get(inbound, b3_sampled)
       /\ values[b3_flags] = IF started.debug THEN <<"1">> ELSE get(inbound, b3_flags)
  /\ ctx = "none" => AllAbsent(values)

C23_Witness ==
  /\ Returned("end_span") /\ SpanStarted /\ before.called
  /\ get(inbound, b3_trace_id) = Barbapapa /\ values[b3_trace_id] = Barbapapa
  /\ values[b3_sampled] = <<"0">>

\* ---- C24
\* C24: while a route wrapped by the span decorator runs, start_span() has
\* run for it, on the headers of the request; when the decorated call is over,
\* after a route that returned or raised, end_span() has run: no subspan is
\* open, one the route left open included, and the call raises exactly when
\* the route did and else returns what the route returned.
C24_SpanDecorator ==
  /\ route = "body" =>
       /\ started.called
       /\ inbound = IF ctx = "request" THEN request ELSE <<>>
  /\ last.op = "span" =>
       /\ route = "out"
       /\ started.called
       /\ ~SubspanOpen
       /\ last.exc <=> (last.arg # None)
       /\ ~last.exc => last.ret = RouteResponse

C24_Witness ==
  /\ last.op = "span" /\ last.arg = ConnectionError /\ last.exc
  /\ before.called /\ ~SubspanOpen /\ ctx = "request"
  /\ inbound = request /\ values[b3_trace_id] = Barbapapa

\* ---- C25
\* C25: no step that starts, replaces or closes a subspan (_start_subspan,
\* _end_subspan, the entry and the exit of a with SubSpan(...) statement)
\* changes one of the five values stored for the span, and in every state
\* they are those the last start_span of the context resolved from its headers.
C25_SubspanLeavesSpan ==
  /\ [][last'.op \in {"_start_subspan", "_end_subspan", "SubSpan"} =>
          \A header \in B3Names :
            /\ has(g', header) <=> has(g, header)
            /\ get(g', header) = get(g, header)]_vars
  /\ [](started.called =>
          /\ Truthy(get(inbound, b3_trace_id)) => get(g, b3_trace_id) = get(inbound, b3_trace_id)
          /\ ~Truthy(get(inbound, b3_trace_id)) => get(g, b3_trace_id) \in _generate_identifier
          /\ get(g, b3_parent_span_id) = get(inbound, b3_parent_span_id)
          /\ get(g, b3_span_id) = IF Truthy(get(inbound, b3_span_id))
                                    THEN get(inbound, b3_span_id) ELSE get(g, b3_trace_id)
          /\ get(g, b3_sampled) = get(inbound, b3_sampled)
          /\ get(g, b3_flags) = IF started.debug THEN <<"1">> ELSE get(inbound, b3_flags))

C25_Witness ==
  /\ Returned("_end_subspan") /\ before.called /\ before.open /\ ~SubspanOpen
  /\ SpanStarted /\ get(inbound, b3_trace_id) = Barbapapa /\ get(inbound, b3_span_id) = PeerId
  /\ get(g, b3_trace_id) = Barbapapa /\ get(g, b3_span_id) = PeerId
  /\ before.values[b3_parent_span_id] = PeerId

\* ---- C26
\* C26: _tracing_information() returns a list exactly when the trace id that
\* values() returns is not empty; the list holds the application's name (or
\* " - "), the trace id and the span id that values() returns, the subspan's
\* while one is open, and "false"; in every state in which the trace id that
\* values() returns is not empty the span id is not empty either, so that no
\* entry of the list is absent.
C26_TracingInformation ==
  /\ Truthy(values[b3_trace_id]) => Truthy(values[b3_span_id])
  /\ last.op = "_tracing_information" =>
       /\ ~last.exc
       /\ (last.ret # None) <=> Truthy(values[b3_trace_id])
       /\ last.ret # None =>
            /\ Len(last.ret) = 4
            /\ \A i \in 1..4 : Truthy(last.ret[i])
            /\ last.ret[1] = IF Truthy(last.arg) THEN last.arg ELSE <<" ","-"," ">>
            /\ last.ret[2] = values[b3_trace_id]
            /\ last.ret[3] = values[b3_span_id]
            /\ last.ret[4] = <<"f","a","l","s","e">>

C26_Witness ==
  /\ last.op = "_tracing_information" /\ last.ret # None /\ SubspanOpen
  /\ last.ret[1] = AppName /\ last.ret[2] = Barbapapa
  /\ last.ret[3] = subspan[b3_span_id] /\ last.ret[3] # get(g, b3_span_id)
  /\ values[b3_sampled] = <<"1">> /\ last.ret[4] = <<"f","a","l","s","e">>

====
